---------------------------- MODULE Spec2Model ----------------------------
(***************************************************************************)
(* Model of the task engine of the Multiagents repository:                 *)
(*   - OrchestratorEngine.execute (core/orchestrator_engine.py): plan,     *)
(*     dispatch, artifact extraction, dependency healing, finalization;    *)
(*   - ResultProcessor (processing/result_processor.py) and FileManager    *)
(*     (action/file_manager.py): extraction of files from result texts and *)
(*     the sandboxed write;                                                *)
(*   - EnvironmentManager (action/environment_manager.py): manifest probe; *)
(*   - MultiAgentOrchestrator._execute_plan (orchestrator.py) with the     *)
(*     AgentManager task table (admin/manager.py), and the task table      *)
(*     driven by a caller;                                                 *)
(*   - PlannerAgent.create_plan (cognitive/planner.py);                    *)
(*   - LLMRouter (core/llm_router.py) with the keys of config/settings.py. *)
(*                                                                         *)
(* Texts are sequences of tokens; paths are sequences of segments.  The    *)
(* collaborators the engine only calls (spawner, planner, router backend,  *)
(* scraper, finalizer, npm/pip) are nondeterministic.  The engine is       *)
(* modelled with its collaborators wired the way the engine names them     *)
(* (cfg.provider, file_manager.base = the file manager's base directory).  *)
(***************************************************************************)
EXTENDS Integers, Sequences, FiniteSets, TLC

VARIABLES
    entry,         \* the operation that was invoked
    pc,            \* control point of the running operation
    plan,          \* ExecutionPlan.subtasks returned by the planner
    idx,           \* position of the for loop of _execute_plan (1-based)
    results,       \* the results dict, as <<key, value>> entries in insertion order
    backend_calls, \* ids of the subtasks sent to the backend, in call order
    validated,     \* ids of the subtasks given to the security validator
    fs,            \* the file tree: absolute path -> content
    file_history,  \* FileManager.file_history
    ex_idx,        \* position of the loop of create_complete_implementation
    files,         \* created_files of create_complete_implementation
    max_retries,   \* parameter of _verify_and_heal
    attempt,       \* loop variable of _verify_and_heal (0-based)
    failures,      \* failures of the current round still to be fixed
    nfail,         \* len(failures) of the current round
    history,       \* healing history built by _verify_and_heal
    healing,       \* value returned by _verify_and_heal ("none" before it returns)
    report,        \* value returned by _finalize ("none" before it returns)
    payload,       \* keys of the dict returned by execute (empty before)
    phases,        \* log: phases entered so far, in order
    probes,        \* log: one entry per install_dependencies call
    fixes,         \* log: one entry per repair request sent to the backend
    tasks,         \* AgentManager.tasks, in creation order
    task_counter,  \* AgentManager.task_counter
    project_path,  \* project_path of the running execute: the sandbox root
    invocations,   \* log: the project_path of every execute so far
    response,      \* the backend text the planner parses ("none" before)
    provider,      \* LLMRouter.provider
    api_keys,      \* settings.groq_api_key, gemini_api_key, openai_api_key
    requests,      \* log: the requests LLMRouter sent to a provider
    error          \* the exception that left the operation ("none" if none)

vars == <<entry, pc, plan, idx, results, backend_calls, validated, fs,
          file_history, ex_idx, files, max_retries, attempt, failures, nfail, history, healing,
          report, payload, phases, probes, fixes, tasks, task_counter,
          project_path, invocations, response, provider, api_keys, requests,
          error>>

-----------------------------------------------------------------------------
(* Bounds of the model *)

MaxSubtasks == 2
MaxRetriesBound == 3

(* Program constants *)

DefaultMaxRetries == 3

-----------------------------------------------------------------------------
(* Sequences *)

RECURSIVE SeqConcat(_)
SeqConcat(ss) ==
    IF ss = <<>> THEN <<>> ELSE Head(ss) \o SeqConcat(Tail(ss))

Range(s) == { s[i] : i \in DOMAIN s }

Last(s) == s[Len(s)]

IsPrefix(p, s) == Len(p) <= Len(s) /\ SubSeq(s, 1, Len(p)) = p

-----------------------------------------------------------------------------
(* Paths.  A path is a sequence of segments; a first segment "/" makes it  *)
(* absolute.                                                               *)

Cwd == <<"/", "home">>

BaseWorkspace == <<"workspace">>

IsAbs(p) == p # <<>> /\ p[1] = "/"

\* pathlib's  a / b
PathJoin(a, b) == IF IsAbs(b) THEN b ELSE a \o b

\* Path.resolve(): made absolute against the working directory, "." dropped,
\* ".." steps to the parent and stays at the root
RECURSIVE Normalize(_, _)
Normalize(acc, rest) ==
    IF rest = <<>> THEN acc
    ELSE LET s == Head(rest) IN
         IF s = "." THEN Normalize(acc, Tail(rest))
         ELSE IF s = ".." THEN
              Normalize(IF Len(acc) > 1 THEN SubSeq(acc, 1, Len(acc) - 1) ELSE acc,
                        Tail(rest))
         ELSE Normalize(Append(acc, s), Tail(rest))

Resolve(p) ==
    LET a == IF IsAbs(p) THEN p ELSE Cwd \o p
    IN Normalize(<<"/">>, Tail(a))

\* Path.relative_to succeeds
IsRelativeTo(p, root) == IsPrefix(root, p)

-----------------------------------------------------------------------------
(* Texts.  A result text is a sequence of tokens: a "### FILE: <path>"     *)
(* marker line, a fenced block ```lang\n body ```, or prose.  A body (and  *)
(* a file's content) is a sequence of body tokens: whitespace, plain text, *)
(* <style>v</style>, <script>v</script>, </head>, </body>, and the two     *)
(* references _inject_links adds.                                          *)

Marker(p) == [k |-> "marker", path |-> p, lang |-> "", body |-> <<>>]
Fence(l, b) == [k |-> "fence", path |-> <<>>, lang |-> l, body |-> b]
Prose == [k |-> "prose", path |-> <<>>, lang |-> "", body |-> <<>>]

Ws == [t |-> "ws", v |-> ""]
Txt(x) == [t |-> "text", v |-> x]
Style(x) == [t |-> "style", v |-> x]
Script(x) == [t |-> "script", v |-> x]
HeadClose == [t |-> "headclose", v |-> ""]
BodyClose == [t |-> "bodyclose", v |-> ""]
LinkTag == [t |-> "link", v |-> ""]
ScriptRef == [t |-> "scriptref", v |-> ""]

\* str.strip(): leading and trailing whitespace removed
RECURSIVE LStrip(_)
LStrip(b) == IF b # <<>> /\ Head(b).t = "ws" THEN LStrip(Tail(b)) ELSE b

RECURSIVE RStrip(_)
RStrip(b) ==
    IF b # <<>> /\ Last(b).t = "ws" THEN RStrip(SubSeq(b, 1, Len(b) - 1)) ELSE b

\* variant: only the leading whitespace is removed
Strip_LeftOnly(b) == LStrip(b)

Strip(b) == RStrip(LStrip(b))

\* str.lower() on the language tags the model uses
Lower(l) == IF l = "HTML" THEN "html" ELSE IF l = "CSS" THEN "css" ELSE l

\* the segments the character class [\w/.-] of the marker pattern accepts
SegOk(s) == s # "my file"

MarkerPathOk(p) == p # <<>> /\ \A i \in DOMAIN p : SegOk(p[i])

\* the language tags \w* accepts: those made of word characters
TagOk(l) == l # "c++"

-----------------------------------------------------------------------------
(* FileManager *)

IsFile(tree, p) == p \in DOMAIN tree

\* p names a directory of the tree: the sandbox root or one of its ancestors,
\* or an ancestor of a file
IsDir(tree, base, p) ==
    \/ IsPrefix(p, Resolve(base))
    \/ \E f \in DOMAIN tree : Len(p) < Len(f) /\ IsPrefix(p, f)

\* variant: the requested path is not checked against the base directory
SafePathOk_Unchecked(base, filepath) == TRUE

\* _get_safe_path does not raise
SafePathOk(base, filepath) ==
    IsRelativeTo(Resolve(PathJoin(base, filepath)), Resolve(base))

\* mkdir(parents) and open(.., 'w') do not raise
OpenOk(tree, base, full) ==
    /\ ~IsDir(tree, base, full)
    /\ \A n \in 1..(Len(full) - 1) : ~IsFile(tree, SubSeq(full, 1, n))

\* variant: a file that exists is left as it is
WriteFile_KeepFirst(st, base, filepath, content) ==
    LET full == Resolve(PathJoin(base, filepath))
        ok == SafePathOk(base, filepath) /\ OpenOk(st.fs, base, full)
        res == [success |-> ok, filepath |-> IF ok THEN full ELSE filepath]
    IN [fs |-> IF ok /\ full \notin DOMAIN st.fs
               THEN [p \in DOMAIN st.fs \cup {full} |->
                        IF p = full THEN content ELSE st.fs[p]]
               ELSE st.fs,
        hist |-> Append(st.hist, [operation |-> "write", filepath |-> filepath,
                                  success |-> ok]),
        out |-> Append(st.out, res)]

\* write_file on the state st = [fs, hist, out]: the file is written and a
\* success result returned, or the exception is caught and a failure result
\* returned; either way the operation is logged and the result appended to
\* the caller's list
WriteFile(st, base, filepath, content) ==
    LET full == Resolve(PathJoin(base, filepath))
        ok == SafePathOk(base, filepath) /\ OpenOk(st.fs, base, full)
        res == [success |-> ok, filepath |-> IF ok THEN full ELSE filepath]
    IN [fs |-> IF ok
               THEN [p \in DOMAIN st.fs \cup {full} |->
                        IF p = full THEN content ELSE st.fs[p]]
               ELSE st.fs,
        hist |-> Append(st.hist, [operation |-> "write", filepath |-> filepath,
                                  success |-> ok]),
        out |-> Append(st.out, res)]

-----------------------------------------------------------------------------
(* ResultProcessor *)

\* _extract_labeled_files: every marker directly followed by a fenced block
RECURSIVE ExtractLabeledFiles(_)
ExtractLabeledFiles(content) ==
    IF Len(content) < 2 THEN <<>>
    ELSE IF /\ content[1].k = "marker"
            /\ MarkerPathOk(content[1].path)
            /\ content[2].k = "fence"
            /\ TagOk(content[2].lang)
         THEN <<[path |-> content[1].path, content |-> Strip(content[2].body)]>>
              \o ExtractLabeledFiles(SubSeq(content, 3, Len(content)))
         ELSE ExtractLabeledFiles(Tail(content))

\* re.findall(r"```(\w+)\n(.*?)```"): the fenced blocks that carry a tag
TaggedBlocks(content) ==
    SelectSeq(content, LAMBDA tok : tok.k = "fence" /\ tok.lang # "" /\ TagOk(tok.lang))

\* "\n\n".join(block.strip() for block in blocks)
RECURSIVE JoinBlocks(_)
JoinBlocks(vs) ==
    IF vs = <<>> THEN <<>>
    ELSE LET h == IF Head(vs) = "" THEN <<>> ELSE <<Txt(Head(vs))>>
         IN IF Len(vs) = 1 THEN h ELSE h \o <<Ws>> \o JoinBlocks(Tail(vs))

BlockValues(html, kind) ==
    LET sel == SelectSeq(html, LAMBDA b : b.t = kind)
    IN [i \in DOMAIN sel |-> sel[i].v]

\* variant: the document is returned as it is
InjectLinks_None(html) == html

\* _inject_links
InjectLinks(html) ==
    SeqConcat([i \in DOMAIN html |->
        IF html[i].t = "headclose" THEN <<LinkTag, html[i]>>
        ELSE IF html[i].t = "bodyclose" THEN <<ScriptRef, html[i]>>
        ELSE <<html[i]>>])

\* _process_html
ProcessHtml(st, base, html) ==
    LET css_content == JoinBlocks(BlockValues(html, "style"))
        js_content == JoinBlocks(BlockValues(html, "script"))
        stripped == SelectSeq(html, LAMBDA b : b.t \notin {"style", "script"})
        s1 == WriteFile(st, base, <<"index.html">>, Strip(InjectLinks(stripped)))
        s2 == IF css_content # <<>>
              THEN WriteFile(s1, base, <<"style.css">>, css_content) ELSE s1
    IN IF js_content # <<>>
       THEN WriteFile(s2, base, <<"script.js">>, js_content) ELSE s2

\* variant: the loop ends at the first write that fails
RECURSIVE WriteLabeled_StopAtRejection(_, _, _)
WriteLabeled_StopAtRejection(st, base, labeled) ==
    IF labeled = <<>> THEN st
    ELSE LET nxt == WriteFile(st, base, Head(labeled).path, Head(labeled).content)
         IN IF Last(nxt.out).success
            THEN WriteLabeled_StopAtRejection(nxt, base, Tail(labeled))
            ELSE nxt

RECURSIVE WriteLabeled(_, _, _)
WriteLabeled(st, base, labeled) ==
    IF labeled = <<>> THEN st
    ELSE WriteLabeled(WriteFile(st, base, Head(labeled).path, Head(labeled).content),
                      base, Tail(labeled))

\* the legacy loop over the tagged blocks of one result
RECURSIVE WriteBlocks(_, _, _)
WriteBlocks(st, base, blocks) ==
    IF blocks = <<>> THEN st
    ELSE LET b == Head(blocks)
             lang == Lower(b.lang)
             nxt == IF lang = "html" THEN ProcessHtml(st, base, b.body)
                    ELSE IF lang = "css"
                         THEN WriteFile(st, base, <<"style.css">>, Strip(b.body))
                    ELSE IF lang \in {"js", "javascript"}
                         THEN WriteFile(st, base, <<"script.js">>, Strip(b.body))
                    ELSE st
         IN WriteBlocks(nxt, base, Tail(blocks))

\* variant: the loop does not `continue` after the labeled files
ProcessOneResult_FallThrough(st, base, content) ==
    WriteBlocks(WriteLabeled(st, base, ExtractLabeledFiles(content)), base,
                TaggedBlocks(content))

\* one iteration of the loop of create_complete_implementation
ProcessOneResult(st, base, content) ==
    LET labeled_files == ExtractLabeledFiles(content)
    IN IF labeled_files # <<>>
       THEN WriteLabeled(st, base, labeled_files)
       ELSE WriteBlocks(st, base, TaggedBlocks(content))

\* create_complete_implementation over the values of the results dict
RECURSIVE CreateCompleteImplementation(_, _, _)
CreateCompleteImplementation(st, base, res) ==
    IF res = <<>> THEN st
    ELSE CreateCompleteImplementation(ProcessOneResult(st, base, Head(res)[2]),
                                      base, Tail(res))

-----------------------------------------------------------------------------
(* SecurityValidator *)

\* the words of a description that match one of FORBIDDEN_PATTERNS
ForbiddenWords == {"rm -rf /", "eval("}

\* the words holding one of the shell characters checked at HIGH and CRITICAL
SuspiciousWords == {"a;b"}

\* validate_command: TRUE when the command is accepted
ValidateCommand(command, level) ==
    /\ \A i \in DOMAIN command : command[i] \notin ForbiddenWords
    /\ level \in {"high", "critical"} =>
           \A i \in DOMAIN command : command[i] \notin SuspiciousWords

-----------------------------------------------------------------------------
(* Inputs *)

\* the ids the planner gives subtasks, and the ids create_task gives tasks
SubtaskId(i) == <<"subtask", i>>
ManagerTaskId(n) == <<"task", n>>

\* task type and description of a subtask, a description being its words
SubtaskShapes ==
    { [task_type |-> "general", description |-> <<"build">>],
      [task_type |-> "general", description |-> <<"rm -rf /">>],
      [task_type |-> "web_scrape", description |-> <<"fetch", "http://x">>],
      [task_type |-> "web_scrape", description |-> <<"fetch">>] }

\* the dependency lists the model gives subtask i of n: none, or the subtask
\* next to it in the plan, the one before or the one after
DepChoices(i, n) ==
    {<<>>} \cup { <<SubtaskId(j)>> : j \in {i - 1, i + 1} \cap 1..n }

SubTask(i, shape, deps) ==
    [task_id |-> SubtaskId(i), description |-> shape.description,
     task_type |-> shape.task_type, dependencies |-> deps]

\* the plans the planner may return: _parse_plan_response checks neither the
\* order of the subtasks nor their dependencies
PlansOfLen(n) ==
    { [i \in 1..n |-> SubTask(i, sh[i], dp[i])] :
        sh \in [1..n -> SubtaskShapes],
        dp \in { d \in [1..n -> UNION { DepChoices(i, n) : i \in 1..n }] :
                    \A i \in 1..n : d[i] \in DepChoices(i, n) } }

Plans == UNION { PlansOfLen(n) : n \in 0..MaxSubtasks }

ManifestBody == <<Txt("deps")>>

\* the answers of the backend to a subtask
Responses ==
    { <<Prose>>,
      <<Marker(<<"requirements.txt">>), Fence("", ManifestBody)>>,
      <<Marker(<<"a.txt">>), Fence("txt", <<Ws, Txt("hello"), Ws>>),
        Fence("css", <<Txt("c1")>>)>> }

\* the result texts create_complete_implementation is given when it is
\* called on its own
ExtractTexts ==
    Responses \cup
    { <<Marker(<<"..", "..", "etc", "passwd">>), Fence("", <<Txt("x")>>)>>,
      <<Marker(<<"a", "..", "b.txt">>), Fence("", <<Txt("y")>>)>>,
      <<Marker(<<"a.txt">>), Prose, Fence("js", <<Txt("j1")>>)>>,
      <<Fence("html", <<Style("s"), HeadClose, Script("j"), BodyClose>>),
        Fence("css", <<Txt("c2")>>)>>,
      <<Fence("HTML", <<Ws, Txt("h"), Style("")>>), Fence("", <<Txt("z")>>)>>,
      <<Marker(<<"a.txt">>), Fence("", <<Txt("bye")>>),
        Marker(<<"a.txt">>), Fence("", <<Txt("ciao")>>)>>,
      <<Marker(<<"a", "b.txt">>), Fence("txt", <<Txt("hello"), Ws>>)>>,
      <<Marker(<<"my file">>), Fence("css", <<Txt("m")>>)>>,
      <<Marker(<<"m.cpp">>), Fence("c++", <<Txt("x")>>)>>,
      <<Fence("html", <<Txt("h"), Style("s"), HeadClose, Script("j"), BodyClose>>)>>,
      <<Fence("html", <<Txt("h"), Style("s"), Script("j")>>)>>,
      <<Fence("html", <<Style(""), Script("j"), BodyClose>>)>>,
      <<Marker(<<"..", "..", "etc", "passwd">>), Fence("", <<Txt("x")>>),
        Marker(<<"ok.txt">>), Fence("", <<Txt("fine")>>)>> }

\* the answers of the backend to a repair request for the manifest `file`:
\* the manifest labeled with the path of the request, labeled with its path
\* inside the sandbox, or no file at all
FixResponses(file, rel) ==
    { <<Marker(file), Fence("", <<Txt("fixed")>>)>>,
      <<Marker(rel), Fence("", <<Txt("fixed")>>)>>,
      <<Prose>> }

\* result strings the dispatcher writes itself
BlockedText == <<[k |-> "blocked", path |-> <<>>, lang |-> "", body |-> <<>>]>>
ScrapedText == <<[k |-> "scraped", path |-> <<>>, lang |-> "", body |-> <<>>]>>
NoUrlText == <<[k |-> "no_url", path |-> <<>>, lang |-> "", body |-> <<>>]>>

\* re.findall(r'https?://...') finds a URL in the description
HasUrl(description) == \E i \in DOMAIN description : description[i] = "http://x"

-----------------------------------------------------------------------------
(* dict *)

HasKey(d, key) == \E i \in DOMAIN d : d[i][1] = key

\* variant: the dict is made anew with the entry
DictSet_Fresh(d, key, value) == <<<<key, value>>>>

\* d[key] = value: a present key keeps its position
DictSet(d, key, value) ==
    IF HasKey(d, key)
    THEN [i \in DOMAIN d |-> IF d[i][1] = key THEN <<key, value>> ELSE d[i]]
    ELSE Append(d, <<key, value>>)

\* d[key], for a key of d
DictGet(d, key) == d[CHOOSE i \in DOMAIN d : d[i][1] = key][2]

Keys(d) == { d[i][1] : i \in DOMAIN d }

-----------------------------------------------------------------------------
(* LLMRouter and settings *)

\* the settings without any API key: the defaults of Settings
NoKeys == [groq_api_key |-> "", gemini_api_key |-> "", openai_api_key |-> ""]

\* LLMRouter.__init__: provider or settings.default_provider
RouterProvider(arg, default_provider) ==
    IF arg \in {"None", ""} THEN default_provider ELSE arg

\* variant: a provider without its API key is not detected
ChatError_KeyUnchecked(prov, keys) ==
    IF prov \in {"ollama", "groq", "gemini", "openai"} THEN "none"
    ELSE "Unknown provider"

\* chat and the provider implementations: the ValueError raised before any
\* request is made, "none" when the request goes out
ChatError(prov, keys) ==
    IF prov = "ollama" THEN "none"
    ELSE IF prov = "groq"
         THEN IF keys.groq_api_key = ""
              THEN "GROQ_API_KEY not configured in .env" ELSE "none"
    ELSE IF prov = "gemini"
         THEN IF keys.gemini_api_key = ""
              THEN "GEMINI_API_KEY not configured in .env" ELSE "none"
    ELSE IF prov = "openai"
         THEN IF keys.openai_api_key = ""
              THEN "OPENAI_API_KEY not configured in .env" ELSE "none"
    ELSE "Unknown provider"

\* the exception of a request that went out and failed
TransportError == "transport"

-----------------------------------------------------------------------------
(* EnvironmentManager *)

\* the sandbox of the execution: base_workspace / project_id
ProjectPath == BaseWorkspace \o <<"project_1a2b3c4d">>

NodeModulesSegs == {"node_modules"}
VenvSegs == {"venv", ".env"}

\* the path of f below root, f being a file of the tree under root
RelTo(f, root) == SubSeq(f, Len(Resolve(root)) + 1, Len(f))

\* root.rglob(name): the files called name anywhere below root
RGlob(tree, root, name) ==
    { f \in DOMAIN tree : /\ IsPrefix(Resolve(root), f)
                          /\ Len(f) > Len(Resolve(root))
                          /\ Last(f) = name }

\* variant: vendor and virtual-env directories are not skipped
Manifests_NoExclusion(tree, root) ==
    { root \o RelTo(f, root) : f \in
        RGlob(tree, root, "package.json") \cup RGlob(tree, root, "requirements.txt") }

\* the manifests install_dependencies probes, as the paths rglob yields
Manifests(tree, root) ==
    { root \o RelTo(f, root) : f \in
        { g \in RGlob(tree, root, "package.json") :
            \A i \in DOMAIN (root \o RelTo(g, root)) :
                (root \o RelTo(g, root))[i] \notin NodeModulesSegs }
        \cup
        { g \in RGlob(tree, root, "requirements.txt") :
            \A i \in DOMAIN (root \o RelTo(g, root)) :
                (root \o RelTo(g, root))[i] \notin VenvSegs } }

\* the order in which install_dependencies meets the manifests: package.json
\* before requirements.txt, and rglob walks a directory before its subdirectories
ManifestOrderOk(fl) ==
    \A i, j \in DOMAIN fl :
        /\ (Last(fl[i]) = "requirements.txt" /\ Last(fl[j]) = "package.json") => j < i
        /\ (Last(fl[i]) = Last(fl[j]) /\ Len(fl[i]) < Len(fl[j])
              /\ IsPrefix(SubSeq(fl[i], 1, Len(fl[i]) - 1), fl[j])) => i < j

\* the failure lists install_dependencies may return for a set of failed probes
FailureLists(failed) ==
    { fl \in [1..Cardinality(failed) -> failed] :
        /\ \A i, j \in DOMAIN fl : i # j => fl[i] # fl[j]
        /\ ManifestOrderOk(fl) }

-----------------------------------------------------------------------------
(* OrchestratorEngine.execute *)

NoFiles == [p \in {} |-> <<>>]

InitCommon ==
    /\ plan = <<>>
    /\ idx = 1
    /\ results = <<>>
    /\ backend_calls = <<>>
    /\ validated = <<>>
    /\ fs = NoFiles
    /\ file_history = <<>>
    /\ ex_idx = 1
    /\ files = <<>>
    /\ max_retries = DefaultMaxRetries
    /\ attempt = 0
    /\ failures = <<>>
    /\ nfail = 0
    /\ history = <<>>
    /\ healing = "none"
    /\ report = "none"
    /\ payload = {}
    /\ phases = <<>>
    /\ probes = <<>>
    /\ fixes = <<>>
    /\ tasks = <<>>
    /\ task_counter = 0
    /\ project_path = ProjectPath
    /\ invocations = <<ProjectPath>>
    /\ response = "none"
    /\ requests = <<>>
    /\ error = "none"

\* execute is entered: the scoped file manager and result processor exist
Init ==
    /\ InitCommon
    /\ entry = "execute"
    /\ pc = "plan"
    /\ provider \in {"ollama", "groq"}
    /\ api_keys = NoKeys

\* where control goes when a phase returns: on to the next phase of execute,
\* or back to the caller that invoked the phase on its own
After(next) == IF entry = "execute" THEN next ELSE "returned"

\* _plan: the planner returns a plan and _execute_plan is entered, or the
\* planner's backend call raises
Plan ==
    /\ pc = "plan"
    /\ \/ /\ \E p \in Plans : plan' = p
          /\ pc' = "dispatch"
          /\ phases' = phases \o <<"plan", "dispatch">>
          /\ UNCHANGED error
       \/ /\ pc' = "raised"
          /\ error' = TransportError
          /\ phases' = Append(phases, "plan")
          /\ UNCHANGED plan
    /\ UNCHANGED <<entry, idx, results, backend_calls, validated, fs,
                   file_history, ex_idx, files, max_retries, attempt, failures,
                   nfail, history, healing, report, payload, probes, fixes,
                   tasks, task_counter>>
    /\ UNCHANGED <<project_path, invocations, response, provider, api_keys,
                   requests>>

\* one iteration of the loop of _execute_plan
Dispatch ==
    /\ pc = "dispatch"
    /\ idx <= Len(plan)
    /\ LET subtask == plan[idx] IN
       IF subtask.task_type = "web_scrape"
       THEN /\ results' = DictSet(results, subtask.task_id,
                                  IF HasUrl(subtask.description)
                                  THEN ScrapedText ELSE NoUrlText)
            /\ idx' = idx + 1
            /\ UNCHANGED <<pc, backend_calls, validated, requests, error>>
       ELSE /\ validated' = Append(validated, subtask.task_id)
            /\ IF ~ValidateCommand(subtask.description, "medium")
               THEN /\ results' = DictSet(results, subtask.task_id, BlockedText)
                    /\ idx' = idx + 1
                    /\ UNCHANGED <<pc, backend_calls, requests, error>>
               ELSE /\ backend_calls' = Append(backend_calls, subtask.task_id)
                    /\ IF ChatError(provider, api_keys) # "none"
                       THEN /\ pc' = "raised"
                            /\ error' = ChatError(provider, api_keys)
                            /\ UNCHANGED <<results, idx, requests>>
                       ELSE /\ requests' = Append(requests, provider)
                            /\ \/ /\ \E content \in Responses :
                                         results' = DictSet(results, subtask.task_id,
                                                            content)
                                  /\ idx' = idx + 1
                                  /\ UNCHANGED <<pc, error>>
                               \/ /\ pc' = "raised"
                                  /\ error' = TransportError
                                  /\ UNCHANGED <<results, idx>>
    /\ UNCHANGED <<entry, plan, fs, file_history, ex_idx, files, max_retries,
                   attempt, failures, nfail, history, healing, report, payload,
                   phases, probes, fixes, tasks, task_counter>>
    /\ UNCHANGED <<project_path, invocations, response, provider, api_keys>>

\* _execute_plan returns its results and create_complete_implementation is entered
DispatchReturn ==
    /\ pc = "dispatch"
    /\ idx > Len(plan)
    /\ pc' = "extract"
    /\ phases' = Append(phases, "extract")
    /\ UNCHANGED <<entry, plan, idx, results, backend_calls, validated, fs,
                   file_history, ex_idx, files, max_retries, attempt, failures,
                   nfail, history, healing, report, payload, probes, fixes,
                   tasks, task_counter>>
    /\ UNCHANGED <<project_path, invocations, response, provider, api_keys,
                   requests, error>>

\* one iteration of the loop of create_complete_implementation
Extract ==
    /\ pc = "extract"
    /\ ex_idx <= Len(results)
    /\ LET st == ProcessOneResult([fs |-> fs, hist |-> file_history, out |-> files],
                                  project_path, results[ex_idx][2])
       IN /\ fs' = st.fs
          /\ file_history' = st.hist
          /\ files' = st.out
    /\ ex_idx' = ex_idx + 1
    /\ UNCHANGED <<entry, pc, plan, idx, results, backend_calls, validated,
                   max_retries, attempt, failures, nfail, history, healing,
                   report, payload, phases, probes, fixes, tasks, task_counter>>
    /\ UNCHANGED <<project_path, invocations, response, provider, api_keys,
                   requests, error>>

\* create_complete_implementation returns; in execute _verify_and_heal is entered
ExtractReturn ==
    /\ pc = "extract"
    /\ ex_idx > Len(results)
    /\ pc' = After("heal")
    /\ phases' = IF entry = "execute" THEN Append(phases, "heal") ELSE phases
    /\ UNCHANGED <<entry, plan, idx, results, backend_calls, validated, fs,
                   file_history, ex_idx, files, max_retries, attempt, failures,
                   nfail, history, healing, report, payload, probes, fixes,
                   tasks, task_counter>>
    /\ UNCHANGED <<project_path, invocations, response, provider, api_keys,
                   requests, error>>

\* variant: the loop variable is written as it is, counting from 0
AttemptNumber_ZeroBased(a) == a

\* the number a round is given in the history: attempt+1
AttemptNumber(a) == a + 1

\* _verify_and_heal, top of the loop with a round left: install_dependencies
\* probes every manifest; no failure ends the healer with a Success entry
HealProbe ==
    /\ pc = "heal"
    /\ attempt < max_retries
    /\ \E failed \in SUBSET Manifests(fs, project_path) :
       \E fl \in FailureLists(failed) :
          /\ probes' = Append(probes, [attempt |-> attempt + 1,
                                       probed |-> Manifests(fs, project_path),
                                       failed |-> failed])
          /\ IF fl = <<>>
             THEN /\ history' = Append(history, [attempt |-> AttemptNumber(attempt),
                                                 kind |-> "Success", errors |-> 0])
                  /\ healing' = history'
                  /\ pc' = After("finalize")
                  /\ phases' = IF entry = "execute"
                               THEN Append(phases, "finalize") ELSE phases
                  /\ UNCHANGED <<failures, nfail>>
             ELSE /\ failures' = fl
                  /\ nfail' = Len(fl)
                  /\ pc' = "heal_fix"
                  /\ UNCHANGED <<history, healing, phases>>
    /\ UNCHANGED <<entry, plan, idx, results, backend_calls, validated, fs,
                   file_history, ex_idx, files, max_retries, attempt, report,
                   payload, fixes, tasks, task_counter>>
    /\ UNCHANGED <<project_path, invocations, response, provider, api_keys,
                   requests, error>>

\* the repair of one failure: the backend is asked for the manifest and its
\* answer goes through create_complete_implementation; a backend error raises
HealFix ==
    /\ pc = "heal_fix"
    /\ failures # <<>>
    /\ LET file_path == Head(failures) IN
       /\ fixes' = Append(fixes, [attempt |-> attempt + 1, file |-> file_path])
       /\ IF ChatError(provider, api_keys) # "none"
          THEN /\ pc' = "raised"
               /\ error' = ChatError(provider, api_keys)
               /\ UNCHANGED <<fs, file_history, failures, requests>>
          ELSE /\ requests' = Append(requests, provider)
               /\ \/ /\ \E content \in FixResponses(file_path,
                               SubSeq(file_path, Len(project_path) + 1, Len(file_path))) :
                          LET st == CreateCompleteImplementation(
                                        [fs |-> fs, hist |-> file_history, out |-> <<>>],
                                        project_path, <<<<"fix", content>>>>)
                          IN /\ fs' = st.fs
                             /\ file_history' = st.hist
                     /\ failures' = Tail(failures)
                     /\ UNCHANGED <<pc, error>>
                  \/ /\ pc' = "raised"
                     /\ error' = TransportError
                     /\ UNCHANGED <<fs, file_history, failures>>
    /\ UNCHANGED <<entry, plan, idx, results, backend_calls, validated, ex_idx,
                   files, max_retries, attempt, nfail, history, healing, report,
                   payload, phases, probes, tasks, task_counter>>
    /\ UNCHANGED <<project_path, invocations, response, provider, api_keys>>

\* every failure of the round was handled: the round is appended to the history
HealAdvance ==
    /\ pc = "heal_fix"
    /\ failures = <<>>
    /\ history' = Append(history, [attempt |-> AttemptNumber(attempt), kind |-> "Failed",
                                   errors |-> nfail])
    /\ attempt' = attempt + 1
    /\ pc' = "heal"
    /\ UNCHANGED <<entry, plan, idx, results, backend_calls, validated, fs,
                   file_history, ex_idx, files, max_retries, failures, nfail,
                   healing, report, payload, phases, probes, fixes, tasks,
                   task_counter>>
    /\ UNCHANGED <<project_path, invocations, response, provider, api_keys,
                   requests, error>>

\* the loop is over: the history is returned as it stands
HealExhausted ==
    /\ pc = "heal"
    /\ attempt >= max_retries
    /\ healing' = history
    /\ pc' = After("finalize")
    /\ phases' = IF entry = "execute" THEN Append(phases, "finalize") ELSE phases
    /\ UNCHANGED <<entry, plan, idx, results, backend_calls, validated, fs,
                   file_history, ex_idx, files, max_retries, attempt, failures,
                   nfail, history, report, payload, probes, fixes, tasks,
                   task_counter>>
    /\ UNCHANGED <<project_path, invocations, response, provider, api_keys,
                   requests, error>>

\* what consolidate_results is given: the task and the subtask results only
FinalReport(res) == [subtask_count |-> Len(res), results |-> Keys(res)]

\* _finalize and the return of execute; the finalizer's backend call may raise
Finalize ==
    /\ pc = "finalize"
    /\ \/ /\ report' = FinalReport(results)
          /\ payload' = {"task", "project_id", "project_path", "plan", "results",
                         "files", "healing", "report"}
          /\ pc' = "returned"
          /\ UNCHANGED error
       \/ /\ pc' = "raised"
          /\ error' = TransportError
          /\ UNCHANGED <<report, payload>>
    /\ UNCHANGED <<entry, plan, idx, results, backend_calls, validated, fs,
                   file_history, ex_idx, files, max_retries, attempt, failures,
                   nfail, history, healing, phases, probes, fixes, tasks,
                   task_counter>>
    /\ UNCHANGED <<project_path, invocations, response, provider, api_keys,
                   requests>>

Next ==
    \/ Plan
    \/ Dispatch
    \/ DispatchReturn
    \/ Extract
    \/ ExtractReturn
    \/ HealProbe
    \/ HealFix
    \/ HealAdvance
    \/ HealExhausted
    \/ Finalize

Spec == Init /\ [][Next]_vars

-----------------------------------------------------------------------------
(* create_complete_implementation called on its own *)

MaxResults == 2

ResultDicts ==
    UNION { { [i \in 1..n |-> <<SubtaskId(i), t[i]>>] : t \in [1..n -> ExtractTexts] } :
            n \in 0..MaxResults }

InitExtract ==
    /\ InitCommon
    /\ entry = "extract"
    /\ pc = "extract"
    /\ provider = "ollama"
    /\ api_keys = NoKeys

\* the caller hands over its results dict
GiveResults ==
    /\ entry = "extract"
    /\ pc = "extract"
    /\ results = <<>>
    /\ ex_idx = 1
    /\ \E r \in ResultDicts \ {<<>>} : results' = r
    /\ UNCHANGED <<entry, pc, plan, idx, backend_calls, validated, fs,
                   file_history, ex_idx, files, max_retries, attempt, failures,
                   nfail, history, healing, report, payload, phases, probes,
                   fixes, tasks, task_counter>>
    /\ UNCHANGED <<project_path, invocations, response, provider, api_keys,
                   requests, error>>

NextExtract ==
    \/ GiveResults
    \/ Extract
    \/ ExtractReturn

SpecExtract == InitExtract /\ [][NextExtract]_vars

-----------------------------------------------------------------------------
(* _verify_and_heal called on its own *)

\* the file trees the healer is started on
InitialTrees ==
    LET root == Resolve(ProjectPath)
        tree(ps) == [p \in ps |-> ManifestBody]
    IN { NoFiles,
         tree({root \o <<"a.txt">>}),
         tree({root \o <<"requirements.txt">>}),
         tree({root \o <<"node_modules", "package.json">>,
               root \o <<"venv", "requirements.txt">>}),
         tree({root \o <<"package.json">>}) }

InitHeal ==
    /\ plan = <<>>
    /\ idx = 1
    /\ results = <<>>
    /\ backend_calls = <<>>
    /\ validated = <<>>
    /\ fs \in InitialTrees
    /\ file_history = <<>>
    /\ ex_idx = 1
    /\ files = <<>>
    /\ max_retries \in 0..MaxRetriesBound
    /\ attempt = 0
    /\ failures = <<>>
    /\ nfail = 0
    /\ history = <<>>
    /\ healing = "none"
    /\ report = "none"
    /\ payload = {}
    /\ phases = <<>>
    /\ probes = <<>>
    /\ fixes = <<>>
    /\ tasks = <<>>
    /\ task_counter = 0
    /\ project_path = ProjectPath
    /\ invocations = <<ProjectPath>>
    /\ response = "none"
    /\ provider = "ollama"
    /\ api_keys = NoKeys
    /\ requests = <<>>
    /\ error = "none"
    /\ entry = "heal"
    /\ pc = "heal"

NextHeal ==
    \/ HealProbe
    \/ HealFix
    \/ HealAdvance
    \/ HealExhausted

SpecHeal == InitHeal /\ [][NextHeal]_vars

-----------------------------------------------------------------------------
(* AgentManager *)

HasTask(ts, task_id) == \E i \in DOMAIN ts : ts[i].task_id = task_id

TaskOf(ts, task_id) == ts[CHOOSE i \in DOMAIN ts : ts[i].task_id = task_id]

\* create_task with the counter already incremented to n
CreateTask(ts, n, description, dependencies) ==
    Append(ts, [task_id |-> ManagerTaskId(n), description |-> description,
                status |-> "pending", assigned_agent |-> "none",
                result |-> "none", dependencies |-> dependencies])

\* variant: a dependency is unmet only when it has failed
DependenciesMet_UnlessFailed(ts, task) ==
    \A i \in DOMAIN task.dependencies :
        HasTask(ts, task.dependencies[i]) =>
            TaskOf(ts, task.dependencies[i]).status # "failed"

\* _dependencies_met
DependenciesMet(ts, task) ==
    \A i \in DOMAIN task.dependencies :
        /\ HasTask(ts, task.dependencies[i])
        /\ TaskOf(ts, task.dependencies[i]).status = "completed"

\* assign_task: the value returned
AssignTaskReturn(ts, task_id) ==
    IF ~HasTask(ts, task_id) THEN FALSE
    ELSE DependenciesMet(ts, TaskOf(ts, task_id))

\* assign_task: the task table after the call
AssignTask(ts, task_id, agent_id) ==
    IF ~HasTask(ts, task_id) THEN ts
    ELSE [i \in DOMAIN ts |->
            IF ts[i].task_id # task_id THEN ts[i]
            ELSE IF ~DependenciesMet(ts, ts[i])
                 THEN [ts[i] EXCEPT !.status = "blocked"]
                 ELSE [ts[i] EXCEPT !.assigned_agent = agent_id,
                                    !.status = "in_progress"]]

\* variant: the result is stored and the status left as it is
CompleteTask_StatusKept(ts, task_id, result) ==
    [i \in DOMAIN ts |->
        IF ts[i].task_id # task_id THEN ts[i]
        ELSE [ts[i] EXCEPT !.result = result]]

\* complete_task: the task table after the call
CompleteTask(ts, task_id, result) ==
    [i \in DOMAIN ts |->
        IF ts[i].task_id # task_id THEN ts[i]
        ELSE [ts[i] EXCEPT !.status = "completed", !.result = result]]

\* the text of an exception
ErrorText == <<[k |-> "error", path |-> <<>>, lang |-> "", body |-> <<>>]>>

\* fail_task: the task table after the call
FailTask(ts, task_id, err) ==
    [i \in DOMAIN ts |->
        IF ts[i].task_id # task_id THEN ts[i]
        ELSE [ts[i] EXCEPT !.status = "failed", !.result = err]]

\* variant: the dependencies are not looked at
GetPendingTasks_StatusOnly(ts) ==
    SelectSeq(ts, LAMBDA task : task.status = "pending")

\* get_pending_tasks
GetPendingTasks(ts) ==
    SelectSeq(ts, LAMBDA task : task.status = "pending" /\ DependenciesMet(ts, task))

-----------------------------------------------------------------------------
(* The AgentManager driven by a caller *)

MaxTasks == 2

\* the ids a caller passes: those of the tasks created so far or later
CallerTaskIds == { ManagerTaskId(n) : n \in 1..MaxTasks }

\* the dependency lists a caller passes to create_task
CallerDependencies ==
    {<<>>, <<ManagerTaskId(1), ManagerTaskId(2)>>}
    \cup { <<id>> : id \in CallerTaskIds }

InitManager ==
    /\ InitCommon
    /\ entry = "manager"
    /\ pc = "manager"
    /\ provider = "ollama"
    /\ api_keys = NoKeys

MgrCreateTask ==
    /\ pc = "manager"
    /\ task_counter < MaxTasks
    /\ \E dependencies \in CallerDependencies :
          tasks' = CreateTask(tasks, task_counter + 1, <<"build">>, dependencies)
    /\ task_counter' = task_counter + 1
    /\ UNCHANGED <<entry, pc, plan, idx, results, backend_calls, validated, fs,
                   file_history, ex_idx, files, max_retries, attempt, failures,
                   nfail, history, healing, report, payload, phases, probes,
                   fixes, project_path, invocations, response, provider,
                   api_keys, requests, error>>

MgrAssignTask ==
    /\ pc = "manager"
    /\ \E task_id \in CallerTaskIds :
          tasks' = AssignTask(tasks, task_id, <<"executor", 1>>)
    /\ UNCHANGED <<entry, pc, plan, idx, results, backend_calls, validated, fs,
                   file_history, ex_idx, files, max_retries, attempt, failures,
                   nfail, history, healing, report, payload, phases, probes,
                   fixes, task_counter, project_path, invocations, response,
                   provider, api_keys, requests, error>>

MgrCompleteTask ==
    /\ pc = "manager"
    /\ \E task_id \in CallerTaskIds :
          tasks' = CompleteTask(tasks, task_id, <<Prose>>)
    /\ UNCHANGED <<entry, pc, plan, idx, results, backend_calls, validated, fs,
                   file_history, ex_idx, files, max_retries, attempt, failures,
                   nfail, history, healing, report, payload, phases, probes,
                   fixes, task_counter, project_path, invocations, response,
                   provider, api_keys, requests, error>>

MgrFailTask ==
    /\ pc = "manager"
    /\ \E task_id \in CallerTaskIds :
          tasks' = FailTask(tasks, task_id, ErrorText)
    /\ UNCHANGED <<entry, pc, plan, idx, results, backend_calls, validated, fs,
                   file_history, ex_idx, files, max_retries, attempt, failures,
                   nfail, history, healing, report, payload, phases, probes,
                   fixes, task_counter, project_path, invocations, response,
                   provider, api_keys, requests, error>>

NextManager ==
    \/ MgrCreateTask
    \/ MgrAssignTask
    \/ MgrCompleteTask
    \/ MgrFailTask

SpecManager == InitManager /\ [][NextManager]_vars

-----------------------------------------------------------------------------
(* MultiAgentOrchestrator._execute_plan *)

\* result strings _execute_subtask writes itself
TaskBlockedText == <<[k |-> "task_blocked", path |-> <<>>, lang |-> "", body |-> <<>>]>>

InitCli ==
    /\ InitCommon
    /\ entry = "cli"
    /\ pc = "cli_plan"
    /\ provider = "ollama"
    /\ api_keys = NoKeys

\* _execute_plan is called with the plan of the planner
CliGivePlan ==
    /\ pc = "cli_plan"
    /\ \E p \in Plans : plan' = p
    /\ pc' = "cli_assign"
    /\ UNCHANGED <<entry, idx, results, backend_calls, validated, fs,
                   file_history, ex_idx, files, max_retries, attempt, failures,
                   nfail, history, healing, report, payload, phases, probes,
                   fixes, tasks, task_counter>>
    /\ UNCHANGED <<project_path, invocations, response, provider, api_keys,
                   requests, error>>

\* first half of an iteration: create_task, spawn_agent, assign_task
CliAssign ==
    /\ pc = "cli_assign"
    /\ idx <= Len(plan)
    /\ LET subtask == plan[idx]
           created == CreateTask(tasks, task_counter + 1, subtask.description,
                                 subtask.dependencies)
       IN /\ task_counter' = task_counter + 1
          /\ tasks' = AssignTask(created, ManagerTaskId(task_counter + 1),
                                 <<"executor", idx>>)
    /\ pc' = "cli_execute"
    /\ UNCHANGED <<entry, plan, idx, results, backend_calls, validated, fs,
                   file_history, ex_idx, files, max_retries, attempt, failures,
                   nfail, history, healing, report, payload, phases, probes,
                   fixes>>
    /\ UNCHANGED <<project_path, invocations, response, provider, api_keys,
                   requests, error>>

\* second half, up to the backend: _execute_subtask runs the security check; a
\* rejected subtask gets its result at once, is completed and stored; an
\* accepted one is sent to the backend and the dispatcher waits for the answer
CliExecute ==
    /\ pc = "cli_execute"
    /\ LET subtask == plan[idx] IN
       /\ validated' = Append(validated, subtask.task_id)
       /\ IF ~ValidateCommand(subtask.description, "medium")
          THEN /\ tasks' = CompleteTask(tasks, ManagerTaskId(task_counter),
                                        TaskBlockedText)
               /\ results' = DictSet(results, subtask.task_id, TaskBlockedText)
               /\ idx' = idx + 1
               /\ pc' = "cli_assign"
               /\ UNCHANGED backend_calls
          ELSE /\ backend_calls' = Append(backend_calls, subtask.task_id)
               /\ pc' = "cli_call"
               /\ UNCHANGED <<tasks, results, idx>>
    /\ UNCHANGED <<entry, plan, fs, file_history, ex_idx, files, max_retries,
                   attempt, failures, nfail, history, healing, report, payload,
                   phases, probes, fixes, task_counter>>
    /\ UNCHANGED <<project_path, invocations, response, provider, api_keys,
                   requests, error>>

\* the backend call returns or raises, the exception being turned into an
\* error string: complete_task, results[task_id] = result
CliAnswer ==
    /\ pc = "cli_call"
    /\ LET subtask == plan[idx] IN
       \E result \in Responses \cup {ErrorText} :
           /\ tasks' = CompleteTask(tasks, ManagerTaskId(task_counter), result)
           /\ results' = DictSet(results, subtask.task_id, result)
    /\ idx' = idx + 1
    /\ pc' = "cli_assign"
    /\ UNCHANGED <<entry, plan, backend_calls, validated, fs, file_history,
                   ex_idx, files, max_retries, attempt, failures, nfail,
                   history, healing, report, payload, phases, probes, fixes,
                   task_counter>>
    /\ UNCHANGED <<project_path, invocations, response, provider, api_keys,
                   requests, error>>

\* the loop is over: the results are returned
CliReturn ==
    /\ pc = "cli_assign"
    /\ idx > Len(plan)
    /\ pc' = "returned"
    /\ UNCHANGED <<entry, plan, idx, results, backend_calls, validated, fs,
                   file_history, ex_idx, files, max_retries, attempt, failures,
                   nfail, history, healing, report, payload, phases, probes,
                   fixes, tasks, task_counter>>
    /\ UNCHANGED <<project_path, invocations, response, provider, api_keys,
                   requests, error>>

NextCli ==
    \/ CliGivePlan
    \/ CliAssign
    \/ CliExecute
    \/ CliAnswer
    \/ CliReturn

SpecCli == InitCli /\ [][NextCli]_vars

\* the two dispatchers side by side: an execution of the engine or a run of
\* MultiAgentOrchestrator._execute_plan
InitDispatch == Init \/ InitCli

NextDispatch == Next \/ NextCli

SpecDispatch == InitDispatch /\ [][NextDispatch]_vars

-----------------------------------------------------------------------------
(* PlannerAgent.create_plan *)

\* the task the planner is given
OriginalTask == <<"build">>

\* the keys an entry of "subtasks" may carry: all of them, all but "id", or
\* all but "description"
SubtaskKeys ==
    { {"id", "description", "dependencies"}, {"description", "dependencies"},
      {"id", "dependencies"} }

\* the entries of "subtasks" in a JSON answer of the backend: the backend is
\* free in the ids and the dependencies it writes
JsonSubtasks ==
    { [keys |-> ks, id |-> SubtaskId(i), description |-> <<"build">>,
       dependencies |-> dp] :
        ks \in SubtaskKeys, i \in 1..MaxSubtasks,
        dp \in {<<>>} \cup { <<SubtaskId(j)>> : j \in 1..(MaxSubtasks + 1) } }

\* the answers of the backend to the planning prompt: a JSON object with its
\* subtasks, braces around something json.loads rejects, or plain text with
\* a number of list lines
PlannerResponses ==
    { [kind |-> "json", subtasks |-> st, bullets |-> 0] :
        st \in UNION { [1..n -> JsonSubtasks] : n \in 0..MaxSubtasks } }
    \cup { [kind |-> "bad_json", subtasks |-> <<>>, bullets |-> 0] }
    \cup { [kind |-> "text", subtasks |-> <<>>, bullets |-> n] : n \in 0..MaxSubtasks }

\* _parse_text_plan: one subtask per list line, numbered from 1
ParseTextPlan(bullets) ==
    [i \in 1..bullets |->
        [keys |-> {"id", "description", "dependencies"}, id |-> SubtaskId(i),
         description |-> <<"step">>, dependencies |-> <<>>]]

\* _create_fallback_plan
CreateFallbackPlan(original_task) ==
    << [task_id |-> SubtaskId(1), description |-> original_task,
        task_type |-> "general", dependencies |-> <<>>] >>

\* SubTask(task_id=st['id'], description=st['description'], ...) for one
\* entry of "subtasks"
SubTaskOfEntry(st) ==
    [task_id |-> st.id,
     description |-> st.description,
     task_type |-> IF "task_type" \in st.keys THEN st.task_type ELSE "general",
     dependencies |-> st.dependencies]

\* variant: an entry that raises is skipped and the other entries are kept
ParsePlanResponse_SkipMalformed(resp, original_task) ==
    IF resp.kind = "bad_json" THEN CreateFallbackPlan(original_task)
    ELSE LET plan_data == IF resp.kind = "json" THEN resp.subtasks
                          ELSE ParseTextPlan(resp.bullets)
             kept == SelectSeq(plan_data,
                               LAMBDA st : {"id", "description"} \subseteq st.keys)
         IN [i \in DOMAIN kept |-> SubTaskOfEntry(kept[i])]

\* execution_order of the plan: the ids of the subtasks in their order, the
\* answers of the model carrying no "execution_order" of their own
ExecutionOrderOf(subtasks) == [i \in DOMAIN subtasks |-> subtasks[i].task_id]

\* _parse_plan_response: the subtasks of the plan it returns
ParsePlanResponse(resp, original_task) ==
    IF resp.kind = "bad_json" THEN CreateFallbackPlan(original_task)
    ELSE LET plan_data == IF resp.kind = "json" THEN resp.subtasks
                          ELSE ParseTextPlan(resp.bullets)
         IN IF \E i \in DOMAIN plan_data :
                  ~({"id", "description"} \subseteq plan_data[i].keys)
            THEN CreateFallbackPlan(original_task)
            ELSE [i \in DOMAIN plan_data |-> SubTaskOfEntry(plan_data[i])]

InitPlanner ==
    /\ InitCommon
    /\ entry = "create_plan"
    /\ pc = "planner_chat"
    /\ provider = "ollama"
    /\ api_keys = NoKeys

\* create_plan, the backend call: it answers or raises
PlannerChat ==
    /\ pc = "planner_chat"
    /\ \/ /\ \E r \in PlannerResponses : response' = r
          /\ pc' = "planner_parse"
          /\ UNCHANGED error
       \/ /\ pc' = "raised"
          /\ error' = TransportError
          /\ UNCHANGED response
    /\ UNCHANGED <<entry, plan, idx, results, backend_calls, validated, fs,
                   file_history, ex_idx, files, max_retries, attempt, failures,
                   nfail, history, healing, report, payload, phases, probes,
                   fixes, tasks, task_counter, project_path, invocations,
                   provider, api_keys, requests>>

\* create_plan, the rest: the answer is parsed and the plan returned
PlannerParse ==
    /\ pc = "planner_parse"
    /\ plan' = ParsePlanResponse(response, OriginalTask)
    /\ pc' = "returned"
    /\ UNCHANGED <<entry, idx, results, backend_calls, validated, fs,
                   file_history, ex_idx, files, max_retries, attempt, failures,
                   nfail, history, healing, report, payload, phases, probes,
                   fixes, tasks, task_counter, project_path, invocations,
                   response, provider, api_keys, requests, error>>

NextPlanner ==
    \/ PlannerChat
    \/ PlannerParse

SpecPlanner == InitPlanner /\ [][NextPlanner]_vars

-----------------------------------------------------------------------------
(* LLMRouter driven by a caller *)

MaxChats == 2

\* the provider arguments a caller constructs the router with
ProviderArgs ==
    {"None", "", "ollama", "groq", "gemini", "openai", "unknown_provider"}

\* the values of settings.default_provider
DefaultProviders == {"ollama", "groq"}

\* the values of an API key in the settings: not set, or set
KeyValues == {"", "sk"}

InitRouter ==
    /\ InitCommon
    /\ entry = "chat"
    /\ pc = "router_new"
    /\ provider = "None"
    /\ api_keys \in [{"groq_api_key", "gemini_api_key", "openai_api_key"} -> KeyValues]

\* LLMRouter(provider=...)
RouterNew ==
    /\ pc = "router_new"
    /\ \E arg \in ProviderArgs, default_provider \in DefaultProviders :
          provider' = RouterProvider(arg, default_provider)
    /\ pc' = "router_chat"
    /\ UNCHANGED <<entry, plan, idx, results, backend_calls, validated, fs,
                   file_history, ex_idx, files, max_retries, attempt, failures,
                   nfail, history, healing, report, payload, phases, probes,
                   fixes, tasks, task_counter, project_path, invocations,
                   response, api_keys, requests, error>>

\* chat: the ValueError of a provider that cannot be used, or the request to
\* the provider, which answers or raises
RouterChat ==
    /\ pc = "router_chat"
    /\ IF ChatError(provider, api_keys) # "none"
       THEN /\ pc' = "raised"
            /\ error' = ChatError(provider, api_keys)
            /\ UNCHANGED requests
       ELSE /\ requests' = Append(requests, provider)
            /\ \/ /\ pc' = "returned"
                  /\ UNCHANGED error
               \/ /\ pc' = "raised"
                  /\ error' = TransportError
    /\ UNCHANGED <<entry, plan, idx, results, backend_calls, validated, fs,
                   file_history, ex_idx, files, max_retries, attempt, failures,
                   nfail, history, healing, report, payload, phases, probes,
                   fixes, tasks, task_counter, project_path, invocations,
                   response, provider, api_keys>>

\* the caller calls chat once more on the same router
RouterChatAgain ==
    /\ entry = "chat"
    /\ pc \in {"returned", "raised"}
    /\ idx < MaxChats
    /\ idx' = idx + 1
    /\ pc' = "router_chat"
    /\ error' = "none"
    /\ UNCHANGED <<entry, plan, results, backend_calls, validated, fs,
                   file_history, ex_idx, files, max_retries, attempt, failures,
                   nfail, history, healing, report, payload, phases, probes,
                   fixes, tasks, task_counter, project_path, invocations,
                   response, provider, api_keys, requests>>

NextRouter ==
    \/ RouterNew
    \/ RouterChat
    \/ RouterChatAgain

SpecRouter == InitRouter /\ [][NextRouter]_vars

-----------------------------------------------------------------------------
(* execute called more than once on one engine *)

MaxExecutions == 2

\* the values uuid4().hex[:8] may take
ProjectIds == {"1a2b3c4d", "5e6f7a8b"}

\* project_path = f"{self.base_workspace}/{project_id}", project_id being
\* "project_" followed by the drawn value
ProjectPathOf(hex8) == BaseWorkspace \o <<"project_" \o hex8>>

\* the results _execute_plan returns in the n-th execution: no subtask, or
\* one subtask with an answer of the backend; only the last execution is
\* given an answer that holds a manifest
RepeatResults(n) ==
    {<<>>} \cup
    { <<<<SubtaskId(1), content>>>> :
        content \in { c \in Responses :
                        \/ n = MaxExecutions
                        \/ \A f \in Range(ExtractLabeledFiles(c)) :
                              Last(f.path) \notin {"package.json", "requirements.txt"} } }

InitRepeat ==
    /\ plan = <<>>
    /\ idx = 1
    /\ results = <<>>
    /\ backend_calls = <<>>
    /\ validated = <<>>
    /\ fs = NoFiles
    /\ file_history = <<>>
    /\ ex_idx = 1
    /\ files = <<>>
    /\ max_retries = DefaultMaxRetries
    /\ attempt = 0
    /\ failures = <<>>
    /\ nfail = 0
    /\ history = <<>>
    /\ healing = "none"
    /\ report = "none"
    /\ payload = {}
    /\ phases = <<>>
    /\ probes = <<>>
    /\ fixes = <<>>
    /\ tasks = <<>>
    /\ task_counter = 0
    /\ project_path = <<>>
    /\ invocations = <<>>
    /\ response = "none"
    /\ provider = "ollama"
    /\ api_keys = NoKeys
    /\ requests = <<>>
    /\ error = "none"
    /\ entry = "execute"
    /\ pc = "idle"

\* execute is called: the project id is drawn, the scoped file manager and
\* result processor are made, _plan and _execute_plan return their results
\* and create_complete_implementation is entered
Execute ==
    /\ entry = "execute"
    /\ pc \in {"idle", "returned", "raised"}
    /\ Len(invocations) < MaxExecutions
    /\ \E hex8 \in ProjectIds :
          /\ project_path' = ProjectPathOf(hex8)
          /\ invocations' = Append(invocations, ProjectPathOf(hex8))
    /\ \E r \in RepeatResults(Len(invocations) + 1) : results' = r
    /\ file_history' = <<>>
    /\ ex_idx' = 1
    /\ files' = <<>>
    /\ attempt' = 0
    /\ failures' = <<>>
    /\ nfail' = 0
    /\ history' = <<>>
    /\ healing' = "none"
    /\ report' = "none"
    /\ payload' = {}
    /\ phases' = <<"plan", "dispatch", "extract">>
    /\ probes' = <<>>
    /\ fixes' = <<>>
    /\ requests' = <<>>
    /\ error' = "none"
    /\ pc' = "extract"
    /\ UNCHANGED <<entry, plan, idx, backend_calls, validated, fs, max_retries,
                   tasks, task_counter, response, provider, api_keys>>

NextRepeat ==
    \/ Execute
    \/ Extract
    \/ ExtractReturn
    \/ HealProbe
    \/ HealFix
    \/ HealAdvance
    \/ HealExhausted
    \/ Finalize

SpecRepeat == InitRepeat /\ [][NextRepeat]_vars

-----------------------------------------------------------------------------
(* Properties *)

PlanIds == { plan[i].task_id : i \in DOMAIN plan }

DepsOf(id) ==
    UNION { Range(plan[i].dependencies) : i \in { j \in DOMAIN plan : plan[j].task_id = id } }

Called(id) == \E i \in DOMAIN backend_calls : backend_calls[i] = id

Root == Resolve(ProjectPath)

\* C1: a subtask is never sent to the backend before every subtask it
\* depends on has finished, that is, has its entry in the results.
C1_DependencyOrder ==
    \A b \in PlanIds :
        Called(b) => \A a \in DepsOf(b) \cap PlanIds : HasKey(results, a)

\* C2: when the backend call of A failed, A is FAILED with the error text as
\* its result, and every subtask depending on A is BLOCKED with the result
\* "Blocked: dependency failed" and was never sent to the backend.
BlockedDependencyText == <<[k |-> "blocked_dependency", path |-> <<>>, lang |-> "", body |-> <<>>]>>

C2_FailedDependencyBlocks ==
    (entry = "cli" /\ pc = "returned") =>
        \A i \in DOMAIN plan :
            (HasKey(results, plan[i].task_id)
               /\ DictGet(results, plan[i].task_id) = ErrorText) =>
                /\ tasks[i].status = "failed"
                /\ \A j \in DOMAIN plan :
                      plan[i].task_id \in Range(plan[j].dependencies) =>
                          /\ tasks[j].status = "blocked"
                          /\ ~Called(plan[j].task_id)
                          /\ DictGet(results, plan[j].task_id)
                                 = BlockedDependencyText

\* C3: a failed backend call of a subtask never aborts execute: the failure
\* is recorded as the result of that subtask.
C3_TransportFailureIsData ==
    /\ \A id \in PlanIds : Called(id) => HasKey(results, id)
    /\ (entry = "execute" /\ phases = <<"plan", "dispatch">>) => pc # "raised"

\* C4: a subtask the security validator rejects is never sent to the backend,
\* its result begins with "Blocked", and its status is FAILED.
C4_RejectedIsFailed ==
    \A i \in DOMAIN plan :
        (entry = "cli" /\ i < idx
           /\ ~ValidateCommand(plan[i].description, "medium")) =>
            /\ ~Called(plan[i].task_id)
            /\ DictGet(results, plan[i].task_id) = BlockedText
            /\ tasks[i].status = "failed"

\* C5 as amended: no file is ever written outside the sandbox root; a write
\* whose path resolves outside the root is rejected, logged as a failed
\* operation and returned as a failed result; the marker ../../etc/passwd
\* yields no file and exactly one recorded rejection.  A path with a ".."
\* segment that resolves inside the root is written where it resolves.
EscapeText == <<Marker(<<"..", "..", "etc", "passwd">>), Fence("", <<Txt("x")>>)>>
DotDotText == <<Marker(<<"a", "..", "b.txt">>), Fence("", <<Txt("y")>>)>>

C5_WritesStayInSandbox ==
    /\ \A p \in DOMAIN fs : IsPrefix(Root, p) /\ Len(p) > Len(Root)
    /\ \A i \in DOMAIN file_history :
          ~IsPrefix(Root, Resolve(PathJoin(ProjectPath, file_history[i].filepath)))
              => ~file_history[i].success
    /\ (entry = "extract" /\ pc = "returned" /\ results = <<<<SubtaskId(1), EscapeText>>>>) =>
          /\ fs = NoFiles
          /\ Len(files) = 1 /\ ~files[1].success
          /\ Len(file_history) = 1 /\ ~file_history[1].success
    /\ (entry = "extract" /\ pc = "returned" /\ results = <<<<SubtaskId(1), DotDotText>>>>) =>
          /\ DOMAIN fs = {Root \o <<"b.txt">>}
          /\ Len(files) = 1 /\ files[1].success

C5_RejectionRecorded ==
    /\ entry = "extract"
    /\ pc = "returned"
    /\ \E i \in DOMAIN results : results[i][2] = EscapeText
    /\ \E i \in DOMAIN file_history :
          /\ file_history[i].filepath = <<"..", "..", "etc", "passwd">>
          /\ ~file_history[i].success
    /\ \E i \in DOMAIN file_history : file_history[i].success

\* C5 as stated: every write whose path holds a ".." segment is rejected.
C5_DotDotAlwaysRejected ==
    \A i \in DOMAIN file_history :
        ".." \in Range(file_history[i].filepath) => ~file_history[i].success

\* C6: when a result text holds at least one labeled file (a marker directly
\* followed by a fenced block), the extractor writes that result's labeled
\* files and nothing else from it: one write per labeled file, to the path of
\* its marker, and no file of the tree changes but at those paths.
LabeledAt(content) ==
    { i \in 1..(Len(content) - 1) :
        /\ content[i].k = "marker"
        /\ MarkerPathOk(content[i].path)
        /\ content[i + 1].k = "fence"
        /\ TagOk(content[i + 1].lang) }

C6_LabeledFilesAreExclusive ==
    [][ (pc = "extract" /\ ex_idx <= Len(results) /\ ex_idx' = ex_idx + 1) =>
         LET content == results[ex_idx][2]
             at == LabeledAt(content)
             n == Len(file_history)
         IN at # {} =>
              /\ Len(file_history') = n + Cardinality(at)
              /\ \A k \in (n + 1)..Len(file_history') :
                    \E i \in at : file_history'[k].filepath = content[i].path
              /\ \A p \in DOMAIN fs' :
                    (p \notin DOMAIN fs \/ fs'[p] # fs[p]) =>
                        \E i \in at :
                            /\ p = Resolve(PathJoin(ProjectPath, content[i].path))
                            /\ fs'[p] = Strip(content[i + 1].body)
       ]_vars

LabeledAndCssText ==
    <<Marker(<<"a.txt">>), Fence("txt", <<Ws, Txt("hello"), Ws>>),
      Fence("css", <<Txt("c1")>>)>>

C6_LabeledWithBareBlock ==
    /\ entry = "extract"
    /\ pc = "returned"
    /\ results = <<<<SubtaskId(1), LabeledAndCssText>>>>
    /\ DOMAIN fs = {Root \o <<"a.txt">>}
    /\ fs[Root \o <<"a.txt">>] = <<Txt("hello")>>

\* C7: when some probe fails in every round, the healer ends by returning the
\* full history, one entry per attempt, numbered 1..max_attempts, every entry
\* a failure, so that the caller can tell exhaustion from success.
HealerEnded == entry = "heal" /\ pc \in {"returned", "raised"}

C7_ExhaustionIsExplicit ==
    (HealerEnded /\ probes # <<>> /\ \A i \in DOMAIN probes : probes[i].failed # {}) =>
        /\ healing # "none"
        /\ Len(healing) = max_retries
        /\ \A i \in DOMAIN healing :
              healing[i].attempt = i /\ healing[i].kind = "Failed"

\* C8 as amended: with max_attempts = 3 and one manifest whose probe fails in
\* round 1 and succeeds in round 2, the healer returns exactly two entries,
\* "Attempt 1: Failed with 1 errors. Retrying..." and "Attempt 2: Success",
\* after two probe rounds and the one repair request of attempt 1.
FixedInRoundTwo ==
    /\ entry = "heal"
    /\ max_retries = 3
    /\ Len(probes) >= 2
    /\ Cardinality(probes[1].probed) = 1
    /\ probes[1].failed # {}
    /\ probes[2].failed = {}

EntryPatched(e) == e.kind = "Failed"

NoRecognizedManifest(tree) ==
    \A f \in DOMAIN tree :
        \/ Last(f) \notin {"package.json", "requirements.txt"}
        \/ Last(f) = "package.json" /\ "node_modules" \in Range(f)
        \/ Last(f) = "requirements.txt" /\ Range(f) \cap {"venv", ".env"} # {}

HealedNoManifest ==
    entry = "heal" /\ pc = "returned" /\ NoRecognizedManifest(fs)

C10_AlwaysFinalizes ==
    /\ (entry = "execute" /\ "dispatch" \in Range(phases)) => pc # "raised"
    /\ (entry = "execute" /\ pc = "returned"
          /\ \E i \in DOMAIN healing : healing[i].kind = "Failed") =>
            "healing" \in DOMAIN report


\* C11: the sandbox roots of any two executions on one engine are distinct, a
\* fresh execution finds no file under its root, every file it writes lies
\* under its own root, and its healer probes only manifests under that root.
C11_SandboxesIsolated ==
    /\ \A i, j \in DOMAIN invocations : i # j => invocations[i] # invocations[j]
    /\ (entry = "execute" /\ pc = "extract" /\ ex_idx = 1 /\ file_history = <<>>) =>
          \A p \in DOMAIN fs : ~IsPrefix(Resolve(project_path), p)
    /\ \A i \in DOMAIN files :
          files[i].success => IsPrefix(Resolve(project_path), files[i].filepath)
    /\ \A k \in DOMAIN probes :
          \A m \in probes[k].probed : IsPrefix(project_path, m)


\* C12: a plan whose dependency relation has a cycle is rejected when it is
\* built: none of its subtasks is ever validated, scraped, sent to the
\* backend or given a result.
RECURSIVE ReachableIn(_, _, _)
ReachableIn(p, from, n) ==
    IF n = 0 THEN {}
    ELSE LET step == UNION { Range(p[i].dependencies) :
                               i \in { j \in DOMAIN p : p[j].task_id \in from } }
         IN step \cup ReachableIn(p, step, n - 1)

HasCycle(p) ==
    \E i \in DOMAIN p : p[i].task_id \in ReachableIn(p, {p[i].task_id}, Len(p))

C12_CyclicPlanNeverRuns ==
    (entry = "execute" /\ HasCycle(plan)) =>
        /\ validated = <<>>
        /\ backend_calls = <<>>
        /\ results = <<>>

\* C13: every plan create_plan returns is well formed: the subtask ids are
\* pairwise distinct, no subtask depends on itself, and every dependency
\* names a subtask of the plan.
WellFormed(p) ==
    /\ \A i, j \in DOMAIN p : i # j => p[i].task_id # p[j].task_id
    /\ \A i \in DOMAIN p : p[i].task_id \notin Range(p[i].dependencies)
    /\ \A i \in DOMAIN p :
          Range(p[i].dependencies) \subseteq { p[j].task_id : j \in DOMAIN p }

C13_ReturnedPlanWellFormed ==
    (entry = "create_plan" /\ pc = "returned") => WellFormed(plan)


\* C14: when several artifacts of one extraction run target the same path,
\* the file ends with the content of the artifact processed last, the results
\* being taken in the order of the results dict and the labeled files or
\* blocks of one result in their textual order; every one of these writes is
\* reported as a success.
\* The artifacts of a run are taken one source at a time: a labeled pair of
\* marker and block, or, in a result without labeled file, one html, css or
\* js block.
AscendingSeq(S) ==
    CHOOSE f \in [1..Cardinality(S) -> S] : \A i, j \in DOMAIN f : i < j => f[i] < f[j]

SourcesOf(content) ==
    IF LabeledAt(content) # {}
    THEN LET at == AscendingSeq(LabeledAt(content))
         IN [n \in DOMAIN at |-> <<content[at[n]], content[at[n] + 1]>>]
    ELSE LET bl == SelectSeq(content, LAMBDA tok :
                       /\ tok.k = "fence" /\ TagOk(tok.lang)
                       /\ Lower(tok.lang) \in {"html", "css", "js", "javascript"})
         IN [n \in DOMAIN bl |-> <<bl[n]>>]

\* the files one source yields when it is extracted into an empty sandbox
FilesOfSource(src) ==
    ProcessOneResult([fs |-> NoFiles, hist |-> <<>>, out |-> <<>>], ProjectPath, src).fs

RunSources == SeqConcat([i \in DOMAIN results |-> SourcesOf(results[i][2])])

C14_LastWriteWins ==
    (entry = "extract" /\ pc = "returned") =>
        \A p \in DOMAIN fs :
            LET from == { k \in DOMAIN RunSources : p \in DOMAIN FilesOfSource(RunSources[k]) }
                last == CHOOSE k \in from : \A m \in from : m <= k
            IN /\ from # {}
               /\ fs[p] = FilesOfSource(RunSources[last])[p]
               /\ Cardinality({ i \in DOMAIN files :
                                  files[i].success /\ files[i].filepath = p })
                    = Cardinality(from)

TwoLabeledSamePath ==
    <<Marker(<<"a.txt">>), Fence("", <<Txt("bye")>>),
      Marker(<<"a.txt">>), Fence("", <<Txt("ciao")>>)>>

C14_CollisionsOverwritten ==
    /\ entry = "extract"
    /\ pc = "returned"
    /\ results = << <<SubtaskId(1), TwoLabeledSamePath>>,
                    <<SubtaskId(2), LabeledAndCssText>> >>
    /\ fs[Root \o <<"a.txt">>] = <<Txt("hello")>>
    /\ Len(files) = 3
    /\ \A i \in DOMAIN files : files[i].success


\* C15 as amended: a result text made of one marker line followed by one
\* fenced block, the marker's path being made of word characters, "/", "."
\* and "-" only and the block's tag of word characters only, yields exactly
\* one artifact: its path is the marker's path and its content the trimmed
\* body of the block; "### FILE: a/b.txt" with a txt block "hello" yields
\* (a/b.txt, hello).  With any other character in the path or the tag the
\* marker yields no artifact.
MarkerAndBlock(content) ==
    /\ Len(content) = 2
    /\ content[1].k = "marker"
    /\ content[2].k = "fence"

ExtractedOne == entry = "extract" /\ pc = "returned" /\ Len(results) = 1

RoundTripText == <<Marker(<<"a", "b.txt">>), Fence("txt", <<Txt("hello"), Ws>>)>>

C15_MarkerAndBlockYieldOneFile ==
    (ExtractedOne /\ MarkerAndBlock(results[1][2])) =>
        LET content == results[1][2] IN
        IF MarkerPathOk(content[1].path) /\ TagOk(content[2].lang)
        THEN /\ Len(files) = 1
             /\ Len(file_history) = 1
             /\ file_history[1].filepath = content[1].path
             /\ files[1].success =>
                   /\ DOMAIN fs = {Resolve(PathJoin(ProjectPath, content[1].path))}
                   /\ fs[Resolve(PathJoin(ProjectPath, content[1].path))]
                        = Strip(content[2].body)
             /\ content = RoundTripText =>
                   /\ files[1].success
                   /\ DOMAIN fs = {Root \o <<"a", "b.txt">>}
                   /\ fs[Root \o <<"a", "b.txt">>] = <<Txt("hello")>>
        ELSE \A i \in DOMAIN file_history :
                 file_history[i].filepath # content[1].path

C15_RoundTripExtracted ==
    /\ ExtractedOne
    /\ results[1][2] = RoundTripText
    /\ Len(files) = 1
    /\ fs[Root \o <<"a", "b.txt">>] = <<Txt("hello")>>

\* C15 as stated: every marker line followed by a fenced block yields exactly
\* one artifact with the marker's path.
C15_AnyMarkerYieldsOneFile ==
    (ExtractedOne /\ MarkerAndBlock(results[1][2])) =>
        /\ Len(file_history) = 1
        /\ file_history[1].filepath = results[1][2][1].path


\* C16 as amended: a result without labeled file whose one block is an html
\* block with one inline style block and one inline script block yields
\* index.html, with both blocks removed, a stylesheet link in front of every
\* closing head tag and a script reference in front of every closing body
\* tag; style.css with the style content and script.js with the script
\* content are written when that content is not blank, so that the run
\* yields three files when both blocks have content and fewer otherwise.
CountOf(html, kind) == Len(SelectSeq(html, LAMBDA b : b.t = kind))

OneHtmlBlock(content) ==
    /\ Len(content) = 1
    /\ content[1].k = "fence"
    /\ Lower(content[1].lang) = "html"
    /\ CountOf(content[1].body, "style") = 1
    /\ CountOf(content[1].body, "script") = 1

ValueOf(html, kind) == SelectSeq(html, LAMBDA b : b.t = kind)[1].v

InlineHtmlExtracted == ExtractedOne /\ OneHtmlBlock(results[1][2])

C16_HtmlSplitIntoFiles ==
    InlineHtmlExtracted =>
        LET html == results[1][2][1].body
            css == ValueOf(html, "style")
            js == ValueOf(html, "script")
            index == Root \o <<"index.html">>
            style == Root \o <<"style.css">>
            script == Root \o <<"script.js">>
        IN /\ index \in DOMAIN fs
           /\ CountOf(fs[index], "style") = 0 /\ CountOf(fs[index], "script") = 0
           /\ SelectSeq(fs[index], LAMBDA b : b.t \notin {"link", "scriptref"})
                = Strip(SelectSeq(html, LAMBDA b : b.t \notin {"style", "script"}))
           /\ CountOf(fs[index], "link") = CountOf(html, "headclose")
           /\ CountOf(fs[index], "scriptref") = CountOf(html, "bodyclose")
           /\ \A i \in DOMAIN fs[index] :
                 /\ fs[index][i].t = "link" => fs[index][i + 1].t = "headclose"
                 /\ fs[index][i].t = "scriptref" => fs[index][i + 1].t = "bodyclose"
           /\ IF css # "" THEN style \in DOMAIN fs /\ fs[style] = <<Txt(css)>>
              ELSE style \notin DOMAIN fs
           /\ IF js # "" THEN script \in DOMAIN fs /\ fs[script] = <<Txt(js)>>
              ELSE script \notin DOMAIN fs
           /\ DOMAIN fs \subseteq {index, style, script}
           /\ Len(files) = Cardinality(DOMAIN fs)
           /\ (css # "" /\ js # "") => Len(files) = 3

FullHtmlText ==
    <<Fence("html", <<Txt("h"), Style("s"), HeadClose, Script("j"), BodyClose>>)>>

C16_ThreeFilesWritten ==
    /\ ExtractedOne
    /\ results[1][2] = FullHtmlText
    /\ Len(files) = 3
    /\ fs[Root \o <<"index.html">>]
         = <<Txt("h"), LinkTag, HeadClose, ScriptRef, BodyClose>>
    /\ fs[Root \o <<"style.css">>] = <<Txt("s")>>
    /\ fs[Root \o <<"script.js">>] = <<Txt("j")>>

\* C16 as stated: such a result always yields exactly three artifacts.
C16_AlwaysThreeFiles ==
    InlineHtmlExtracted => Len(files) = 3


\* C17: an artifact whose path leaves the sandbox is dropped and recorded as
\* rejected, and nothing else is: the run attempts every artifact of every
\* result, in order, writes each one whose path stays in the sandbox, and
\* returns without raising.
WritesOfSource(src) ==
    ProcessOneResult([fs |-> NoFiles, hist |-> <<>>, out |-> <<>>], ProjectPath, src).hist

InSandbox(filepath) == IsPrefix(Root, Resolve(PathJoin(ProjectPath, filepath)))

C17_RejectionIsLocal ==
    /\ entry = "extract" => pc # "raised"
    /\ (entry = "extract" /\ pc = "returned") =>
          /\ file_history
               = SeqConcat([k \in DOMAIN RunSources |-> WritesOfSource(RunSources[k])])
          /\ Len(files) = Len(file_history)
          /\ \A i \in DOMAIN file_history :
                /\ files[i].success = file_history[i].success
                /\ file_history[i].success = InSandbox(file_history[i].filepath)
                /\ InSandbox(file_history[i].filepath) =>
                      Resolve(PathJoin(ProjectPath, file_history[i].filepath))
                          \in DOMAIN fs

RejectedThenAccepted ==
    <<Marker(<<"..", "..", "etc", "passwd">>), Fence("", <<Txt("x")>>),
      Marker(<<"ok.txt">>), Fence("", <<Txt("fine")>>)>>

C17_LaterArtifactsWritten ==
    /\ entry = "extract"
    /\ pc = "returned"
    /\ results = << <<SubtaskId(1), RejectedThenAccepted>>,
                    <<SubtaskId(2), LabeledAndCssText>> >>
    /\ Len(file_history) = 3
    /\ ~file_history[1].success
    /\ fs[Root \o <<"ok.txt">>] = <<Txt("fine")>>
    /\ fs[Root \o <<"a.txt">>] = <<Txt("hello")>>


\* C18: whatever create, assign, complete and fail calls came before, the
\* list get_pending_tasks returns holds exactly the tasks that are PENDING
\* and whose every dependency is a COMPLETED task, each once, in the order in
\* which they were created.
Eligible(task) ==
    /\ task.status = "pending"
    /\ \A d \in Range(task.dependencies) :
          \E j \in DOMAIN tasks : tasks[j].task_id = d /\ tasks[j].status = "completed"

C18_PendingQueryIsExact ==
    entry = "manager" =>
        LET pending == GetPendingTasks(tasks) IN
        /\ \A i \in DOMAIN tasks : Eligible(tasks[i]) <=> tasks[i] \in Range(pending)
        /\ \A a \in DOMAIN pending : pending[a] \in Range(tasks)
        /\ \A a, b \in DOMAIN pending :
              a < b => pending[a].task_id[2] < pending[b].task_id[2]

C18_EligibleAmongOthers ==
    /\ entry = "manager"
    /\ Len(tasks) = 2
    /\ tasks[1].status = "completed"
    /\ tasks[2].dependencies = <<ManagerTaskId(1)>>
    /\ tasks[2].status = "pending"
    /\ GetPendingTasks(tasks) = <<tasks[2]>>


\* C19: when the provider of the execution lacks its API key, execute ends
\* with the configuration error before any subtask was validated, scraped or
\* sent to the backend and before any file was written, and never returns a
\* payload.
MissingCredential ==
    \/ provider = "groq" /\ api_keys.groq_api_key = ""
    \/ provider = "gemini" /\ api_keys.gemini_api_key = ""
    \/ provider = "openai" /\ api_keys.openai_api_key = ""

C19_ConfigErrorBeforeAnySubtask ==
    (entry = "execute" /\ MissingCredential) =>
        /\ validated = <<>>
        /\ results = <<>>
        /\ backend_calls = <<>>
        /\ DOMAIN fs = {}
        /\ pc # "returned"

\* C20: chat sends a request only when the provider is ollama, groq, gemini
\* or openai and, for the last three, its API key is not empty, and then to
\* that provider; otherwise it sends nothing and raises the ValueError that
\* names the missing key, or says "Unknown provider".
C20_RequestOnlyWhenConfigured ==
    [][ (entry = "chat" /\ pc = "router_chat") =>
          IF provider = "ollama" \/ (provider \in {"groq", "gemini", "openai"}
                                       /\ ~MissingCredential)
          THEN requests' = Append(requests, provider)
          ELSE /\ requests' = requests
               /\ pc' = "raised"
               /\ provider = "groq" => error' = "GROQ_API_KEY not configured in .env"
               /\ provider = "gemini" => error' = "GEMINI_API_KEY not configured in .env"
               /\ provider = "openai" => error' = "OPENAI_API_KEY not configured in .env"
               /\ provider \notin {"groq", "gemini", "openai"} =>
                     error' = "Unknown provider"
      ]_vars

C20_MissingKeyRaised ==
    /\ entry = "chat"
    /\ pc = "raised"
    /\ provider = "openai"
    /\ api_keys.openai_api_key = ""
    /\ api_keys.groq_api_key = "sk"
    /\ error = "OPENAI_API_KEY not configured in .env"
    /\ requests = <<>>
    /\ idx = MaxChats

\* C21: every patch request of the healer is followed by a probe round before
\* the healer returns: when the healer has returned, the last patch request is
\* older than the last probe round, also when it was made in the last attempt.
C21_LastPatchReprobed ==
    (entry = "heal" /\ pc = "returned" /\ fixes # <<>>) =>
        /\ probes # <<>>
        /\ Last(probes).attempt > Last(fixes).attempt

\* C22: when the backend answers a repair request with a labeled file naming
\* the manifest path of the request, the patch step overwrites the manifest
\* where it lies, creates no other manifest, and so leaves the set of probed
\* manifest locations as it was.
PatchedAsRequested ==
    /\ pc = "heal_fix"
    /\ failures # <<>>
    /\ Len(file_history') = Len(file_history) + 1
    /\ Last(file_history').filepath = Head(failures)

C22_ManifestOverwrittenInPlace ==
    [][ PatchedAsRequested =>
          /\ fs'[Resolve(Head(failures))] = <<Txt("fixed")>>
          /\ DOMAIN fs' = DOMAIN fs
          /\ Manifests(fs', project_path) = Manifests(fs, project_path) ]_vars

\* C23: every patch request of the healer is recorded in the returned history
\* with the manifest's path and the attempt number, and the history holds as
\* many records naming a manifest as patch requests were issued for it.
EntryFile(e) == IF "file" \in DOMAIN e THEN e.file ELSE <<>>

RecordsNaming(hist, file) == { j \in DOMAIN hist : EntryFile(hist[j]) = file }

C23_PatchRequestsRecorded ==
    (entry = "heal" /\ pc = "returned") =>
        \A i \in DOMAIN fixes :
            /\ \E j \in RecordsNaming(healing, fixes[i].file) :
                  healing[j].attempt = fixes[i].attempt
            /\ Cardinality(RecordsNaming(healing, fixes[i].file)) =
                  Cardinality({ k \in DOMAIN fixes : fixes[k].file = fixes[i].file })

\* C24: within one result the bare css and js blocks are written only when
\* the result holds neither a labeled file nor an html block: a result with an
\* html block leaves in the sandbox what its html blocks yield and nothing
\* else, so no bare block overwrites the style.css or script.js split off the
\* markup.
MarkupBlocks(content) ==
    SelectSeq(TaggedBlocks(content), LAMBDA tok : Lower(tok.lang) = "html")

BareBlocks(content) ==
    SelectSeq(TaggedBlocks(content),
              LAMBDA tok : Lower(tok.lang) \in {"css", "js", "javascript"})

C24_BareBlocksAreFallback ==
    [][ (pc = "extract" /\ ex_idx <= Len(results) /\ ex_idx' = ex_idx + 1) =>
         LET content == results[ex_idx][2]
             st == [fs |-> fs, hist |-> file_history, out |-> <<>>]
             markup == WriteBlocks(st, project_path, MarkupBlocks(content))
         IN (LabeledAt(content) = {} /\ MarkupBlocks(content) # <<>>
                /\ BareBlocks(content) # <<>>) =>
              /\ fs' = markup.fs
              /\ file_history' = markup.hist
       ]_vars

\* C25: the dispatcher stops when no subtask is eligible: once every subtask
\* without a result has a dependency that is not completed, no further
\* subtask is validated, sent to the backend or given a result.  A subtask is
\* completed when it has a result other than the rejection of the validator,
\* and eligible when it has no result and all its dependencies are completed.
SubtaskCompleted(id) == HasKey(results, id) /\ DictGet(results, id) # BlockedText

EligibleSubtask(i) ==
    /\ ~HasKey(results, plan[i].task_id)
    /\ \A d \in Range(plan[i].dependencies) : SubtaskCompleted(d)

C25_StopsWhenNoneEligible ==
    [][ (/\ entry = "execute"
         /\ pc = "dispatch"
         /\ \E i \in DOMAIN plan : ~HasKey(results, plan[i].task_id)
         /\ \A i \in DOMAIN plan : ~EligibleSubtask(i)) =>
            /\ validated' = validated
            /\ backend_calls' = backend_calls
            /\ results' = results ]_vars

\* C26: during one execution of a plan at most one subtask is IN_PROGRESS and
\* at most one backend call is outstanding, also when several subtasks are
\* eligible at the same time.
InProgress == { i \in DOMAIN tasks : tasks[i].status = "in_progress" }

Outstanding == { k \in DOMAIN backend_calls : ~HasKey(results, backend_calls[k]) }

C26_OneAtATime ==
    entry = "cli" =>
        /\ Cardinality(InProgress) <= 1
        /\ Cardinality(Outstanding) <= 1
        /\ Outstanding # {} => pc = "cli_call"

C26_TwoEligibleOneRunning ==
    /\ entry = "cli"
    /\ pc = "cli_call"
    /\ Len(plan) = 2
    /\ \A i \in DOMAIN plan :
          plan[i].dependencies = <<>> /\ ~HasKey(results, plan[i].task_id)
    /\ Cardinality(InProgress) = 1
    /\ Cardinality(Outstanding) = 1

\* C27: the status of a task changes only along PENDING -> IN_PROGRESS,
\* PENDING -> BLOCKED, IN_PROGRESS -> COMPLETED and IN_PROGRESS -> FAILED,
\* whatever calls of assign_task, complete_task and fail_task are made, and a
\* COMPLETED or FAILED task keeps its status and its result for ever.
StatusTransitions ==
    { <<"pending", "in_progress">>, <<"pending", "blocked">>,
      <<"in_progress", "completed">>, <<"in_progress", "failed">> }

C27_StatusTransitions ==
    [][ \A i \in DOMAIN tasks :
          /\ tasks'[i].status # tasks[i].status =>
                <<tasks[i].status, tasks'[i].status>> \in StatusTransitions
          /\ tasks[i].status \in {"completed", "failed"} =>
                tasks'[i].result = tasks[i].result ]_vars

\* C28: assign_task returns True, records the agent and sets the task
\* IN_PROGRESS exactly when the task exists and every dependency names an
\* existing COMPLETED task; otherwise it returns False and records no agent,
\* an unknown id changes nothing, and an existing task becomes BLOCKED,
\* whatever the status of the unmet dependency.  Checked for every call a
\* caller can make in every task table the manager can reach.
Assignable(task_id) ==
    /\ \E i \in DOMAIN tasks : tasks[i].task_id = task_id
    /\ \A i \in DOMAIN tasks : tasks[i].task_id = task_id =>
          \A d \in Range(tasks[i].dependencies) :
              \E j \in DOMAIN tasks :
                  tasks[j].task_id = d /\ tasks[j].status = "completed"

CallerAgent == <<"executor", 1>>

C28_AssignIffDependenciesCompleted ==
    entry = "manager" =>
        \A task_id \in CallerTaskIds :
            LET after == AssignTask(tasks, task_id, CallerAgent)
                known == \E i \in DOMAIN tasks : tasks[i].task_id = task_id
            IN /\ AssignTaskReturn(tasks, task_id) = Assignable(task_id)
               /\ DOMAIN after = DOMAIN tasks
               /\ ~known => after = tasks
               /\ \A i \in DOMAIN tasks :
                     IF tasks[i].task_id # task_id THEN after[i] = tasks[i]
                     ELSE IF Assignable(task_id)
                          THEN after[i] = [tasks[i] EXCEPT
                                              !.status = "in_progress",
                                              !.assigned_agent = CallerAgent]
                          ELSE after[i] = [tasks[i] EXCEPT !.status = "blocked"]

C28_BlockedOnUnfinishedDependency ==
    /\ entry = "manager"
    /\ Len(tasks) = 2
    /\ tasks[1].dependencies = <<ManagerTaskId(2)>>
    /\ tasks[1].status = "blocked"
    /\ tasks[1].assigned_agent = "none"
    /\ tasks[2].status = "in_progress"
    /\ tasks[2].assigned_agent = CallerAgent

\* C29 as amended: when a dispatcher returns, the results map has exactly one
\* entry for every subtask id of the plan and no other key, whatever the kind
\* of the subtask and the verdict of the validator.  In the engine a
\* web-scrape subtask gets its entry without validation and without backend
\* call; MultiAgentOrchestrator validates it and sends it to the backend like
\* any other subtask.
DispatcherReturned ==
    \/ entry = "execute" /\ "extract" \in Range(phases)
    \/ entry = "cli" /\ pc = "returned"

OneEntryPerSubtask ==
    /\ Keys(results) = PlanIds
    /\ \A i, j \in DOMAIN results : results[i][1] = results[j][1] => i = j

ScrapeSubtasks == { i \in DOMAIN plan : plan[i].task_type = "web_scrape" }

C29_OneResultPerSubtask ==
    DispatcherReturned =>
        /\ OneEntryPerSubtask
        /\ \A i \in ScrapeSubtasks :
              IF entry = "execute"
              THEN /\ plan[i].task_id \notin Range(validated)
                   /\ ~Called(plan[i].task_id)
                   /\ DictGet(results, plan[i].task_id) \in {ScrapedText, NoUrlText}
              ELSE /\ plan[i].task_id \in Range(validated)
                   /\ Called(plan[i].task_id)
                        = ValidateCommand(plan[i].description, "medium")

C29_ScrapedAndRejected ==
    /\ entry = "execute"
    /\ pc = "extract"
    /\ Len(plan) = 2
    /\ plan[1].task_type = "web_scrape"
    /\ ~ValidateCommand(plan[2].description, "medium")
    /\ results = << <<SubtaskId(1), ScrapedText>>, <<SubtaskId(2), BlockedText>> >>
    /\ validated = <<SubtaskId(2)>>
    /\ backend_calls = <<>>

\* C29 as stated: in either dispatcher a web-scrape subtask gets its entry
\* without validation and without backend call.
C29_ScrapeNeverValidated ==
    DispatcherReturned =>
        /\ OneEntryPerSubtask
        /\ \A i \in ScrapeSubtasks :
              /\ plan[i].task_id \notin Range(validated)
              /\ ~Called(plan[i].task_id)

\* C30: parsing the planner's answer is all-or-nothing and never raises.  When
\* the answer holds JSON that cannot be parsed, or an entry of its subtasks
\* lacks an id or a description, the returned plan holds none of the answer's
\* subtasks: it is the fallback plan, one subtask subtask_1 described by the
\* original task, without dependencies, with execution order [subtask_1].
\* Otherwise the plan holds every subtask of the answer in the answer's order:
\* the entries of the JSON, or the list lines of an answer without JSON.  The
\* only exception that leaves create_plan is the one of the backend call.
MalformedAnswer(resp) ==
    \/ resp.kind = "bad_json"
    \/ /\ resp.kind = "json"
       /\ \E i \in DOMAIN resp.subtasks :
             \/ "id" \notin resp.subtasks[i].keys
             \/ "description" \notin resp.subtasks[i].keys

C30_ParsingIsAllOrNothing ==
    entry = "create_plan" =>
        /\ pc = "raised" => error = TransportError
        /\ pc = "returned" =>
              IF MalformedAnswer(response)
              THEN /\ plan = << [task_id |-> SubtaskId(1),
                                 description |-> OriginalTask,
                                 task_type |-> "general",
                                 dependencies |-> <<>>] >>
                   /\ ExecutionOrderOf(plan) = <<SubtaskId(1)>>
              ELSE IF response.kind = "json"
              THEN /\ Len(plan) = Len(response.subtasks)
                   /\ \A i \in DOMAIN plan :
                         /\ plan[i].task_id = response.subtasks[i].id
                         /\ plan[i].description = response.subtasks[i].description
                         /\ plan[i].dependencies = response.subtasks[i].dependencies
              ELSE /\ Len(plan) = response.bullets
                   /\ \A i \in DOMAIN plan : plan[i].task_id = SubtaskId(i)

C30_OneBadEntryDropsAll ==
    /\ entry = "create_plan"
    /\ pc = "returned"
    /\ response.kind = "json"
    /\ Len(response.subtasks) = 2
    /\ response.subtasks[1].keys = {"id", "description", "dependencies"}
    /\ response.subtasks[1].id = SubtaskId(2)
    /\ "description" \notin response.subtasks[2].keys
    /\ Len(plan) = 1
    /\ plan[1].task_id = SubtaskId(1)
    /\ plan[1].description = OriginalTask

=============================================================================
